---- MODULE Spec2Model ----
(***************************************************************************)
(* picofeed: main and parseFeedArg, the concurrent fetch / aggregate /     *)
(* group pipeline (fetchAll, fetchFeed, extractFeedLink, parseFeed,        *)
(* groupByDate) and render.                                                *)
(***************************************************************************)
EXTENDS Integers, Sequences, FiniteSets, TLC

\* ------------------------------------------------------------------ bounds
\* longest list of feed targets handed to fetchAll
MaxFeeds == 2
\* most items in one feed when fetchAll is given two targets
MaxItems == 1
\* most items in one feed when fetchAll is given a single target
MaxSoloItems == 4
\* capacity of postChan (make(chan *Post, 10000) in the source, scaled down)
ChanCap == 3
\* largest Post collection handed directly to render/groupByDate
MaxPosts == 3
\* largest instant (abstract time units since the epoch)
MaxUnix == 4
\* length of one display period (a "month") in the same units
MonthLen == 2
\* largest Post collection drained into the map of the map-keyed version
MaxKeyedPosts == 3
\* largest Post collection rendered with titles of all lengths
MaxRenderPosts == 2
\* longest file (in pieces of text) handed to parseFeedArg
MaxFileLen == 5

\* ------------------------------------------------------------- data model
\* a nil pointer, and a pointer to a value
Nil == <<>>
Ptr(v) == <<v>>
Deref(p) == p[1]

SeqUpTo(S, n) == UNION {[1..k -> S] : k \in 0..n}

Hosts == {"a"}
Paths == {"/p", "/f"}
\* *url.URL
URLs == [host : Hosts, path : Paths]
\* (*url.URL).String()
String(u) == "http://" \o u.host \o u.path

\* time.Time: an instant plus the zone offset it was parsed with
Offsets == {0, 2}
Times == [unix : 1..MaxUnix, off : Offsets]
PublishedTime == [unix |-> 3, off |-> 0]
UpdatedTime == [unix |-> 1, off |-> 0]

\* a string whose bytes matter (a title) is the sequence of its characters;
\* "U+00E9" is a character outside ASCII, "t" an ASCII letter
\* gofeed.Item, gofeed.Feed
Items == [Title : {<<"t">>}, Link : {"l1"},
          PublishedParsed : {Nil, Ptr(PublishedTime)},
          UpdatedParsed : {Nil, Ptr(UpdatedTime)}]
Feeds(n) == [Title : {"F"}, Items : SeqUpTo(Items, n)]
\* the targets a user passes
Targets == URLs

\* what the two regexes of extractFeedLink can find in a body: no match, or
\* an href that starts with "/", parses as a URL, or fails url.Parse
NoMatch == [kind |-> "none", path |-> "", url |-> Nil]
Hrefs == {NoMatch}
         \cup [kind : {"rel"}, path : {"/f"}, url : {Nil}]
         \cup [kind : {"abs"}, path : {""}, url : {Ptr([host |-> "a", path |-> "/f"])}]
         \cup [kind : {"bad"}, path : {""}, url : {Nil}]

\* response bodies as feedParser.ParseString classifies them
FeedBodies(n) == [type : {"feed"}, feed : {Ptr(f) : f \in Feeds(n)}, rss : {NoMatch}, atom : {NoMatch}]
MalformedBodies == [type : {"malformed"}, feed : {Nil}, rss : {NoMatch}, atom : {NoMatch}]
HtmlBodies == [type : {"html"}, feed : {Nil}, rss : Hrefs, atom : Hrefs]
Bodies(n) == FeedBodies(n) \cup MalformedBodies \cup HtmlBodies
\* the bound on the items of a feed served to a run over the targets fs:
\* the more targets, the shorter the feeds
ItemsBound(fs) ==
    IF Len(fs) <= 1 THEN MaxSoloItems
    ELSE IF Len(fs) = 2 THEN MaxItems
    ELSE 1

\* Post
Posts == [Title : {<<"t">>}, Link : {"l1", "l2"}, Timestamp : {Ptr(t) : t \in Times},
          FeedLink : {String(u) : u \in URLs}, FeedTitle : {"F"}]

Tasks == 1..MaxFeeds

VARIABLES
    args,       \* main's feedsList: the arguments not yet resolved
    fileContents, \* parseFeedArg's contents (ioutil.ReadFile), while it runs
    out,        \* the lines render has printed on standard output
    feeds,      \* main's feeds, fetchAll's argument: the list of feed targets
    mpc,        \* position of main/fetchAll
    spawned,    \* iterations of the spawn loop done
    wg,         \* sync.WaitGroup counter
    ctxDone,    \* ctxTimeout is done (deadline elapsed, or timeoutCancel ran)
    postChan,   \* buffered channel contents
    closed,     \* close(postChan) has run
    posts,      \* fetchAll's posts slice (its return value)
    grouped,    \* groupByDate's return value, in render
    panicked,   \* a goroutine sent on a closed channel
    tpc,        \* position of each per-feed goroutine
    feedUrl,    \* fetchFeed's feedUrl parameter (innermost frame)
    depth,      \* fetchFeed's depth parameter (innermost frame)
    feedData,   \* the goroutine's feedData
    tposts,     \* the goroutine's posts slice
    sent,       \* posts of tposts already pushed on postChan
    err,        \* the error fetchFeed returned to the goroutine ("nil": none)
    parseErr,   \* fetchFeed's err after feedParser.ParseString, last frame
    gets        \* history: client.Do calls made for this target

vars == <<args, fileContents, out, feeds, mpc, spawned, wg, ctxDone, postChan,
          closed, posts, grouped, panicked, tpc, feedUrl, depth, feedData,
          tposts, sent, err, parseErr, gets>>

taskVars == <<tpc, feedUrl, depth, feedData, tposts, sent, err, parseErr, gets>>

\* ------------------------------------------------------- extractFeedLink
RECURSIVE extractFeedLinkLoop(_, _)
extractFeedLinkLoop(baseUrl, matches) ==
    IF matches = <<>> THEN Nil
    ELSE LET m == Head(matches) IN
         IF m.kind = "none" THEN extractFeedLinkLoop(baseUrl, Tail(matches))
         ELSE IF m.kind = "rel" THEN Ptr([host |-> baseUrl.host, path |-> m.path])
         ELSE IF m.kind = "bad" THEN extractFeedLinkLoop(baseUrl, Tail(matches))
         ELSE m.url

extractFeedLink(baseUrl, contents) ==
    extractFeedLinkLoop(baseUrl, <<contents.rss, contents.atom>>)

\* ------------------------------------------------------------- parseFeed
\* a mutant of itemTime: the updated time is preferred
itemTimeUpdatedFirst(i) ==
    IF i.UpdatedParsed = Nil THEN i.PublishedParsed ELSE i.UpdatedParsed

\* t := i.PublishedParsed, replaced by i.UpdatedParsed when it is nil
itemTime(i) ==
    IF i.PublishedParsed = Nil THEN i.UpdatedParsed ELSE i.PublishedParsed

RECURSIVE parseFeedLoop(_, _, _, _)
parseFeedLoop(url, feed, n, acc) ==
    IF n > Len(feed.Items) THEN acc
    ELSE LET i == feed.Items[n]
             t == itemTime(i)
         IN IF i.PublishedParsed = Nil /\ i.UpdatedParsed = Nil
            THEN parseFeedLoop(url, feed, n + 1, acc)
            ELSE parseFeedLoop(url, feed, n + 1,
                     Append(acc, [Title |-> i.Title, Link |-> i.Link,
                                  Timestamp |-> t, FeedTitle |-> feed.Title,
                                  FeedLink |-> String(url)]))

parseFeed(url, feed) == parseFeedLoop(url, feed, 1, <<>>)

\* ----------------------------------------------------------- groupByDate
\* Timestamp.Format("Jan 2006"): the month of the wall-clock time in the
\* timestamp's own zone
MonthNames == <<"Jan 1970", "Feb 1970", "Mar 1970", "Apr 1970", "May 1970",
                "Jun 1970", "Jul 1970", "Aug 1970", "Sep 1970", "Oct 1970",
                "Nov 1970", "Dec 1970">>
Format(t) ==
    LET m == (t.unix + t.off) \div MonthLen IN
    IF m < 0 THEN "Dec 1969" ELSE MonthNames[m + 1]

\* a mutant of ByTimestampLess: Before instead of After
ByTimestampLessBefore(a, b) == Deref(a.Timestamp).unix < Deref(b.Timestamp).unix

\* ByTimestamp.Less: Timestamp.After compares instants
ByTimestampLess(a, b) == Deref(a.Timestamp).unix > Deref(b.Timestamp).unix

\* sort.Sort(ByTimestamp{posts}): not stable, so any arrangement with no
\* inversion of Less is a possible outcome
RECURSIVE SortsOf(_, _)
SortsOf(s, I) ==
    IF I = {} THEN {<<>>}
    ELSE UNION {{<<s[i]>> \o r : r \in SortsOf(s, I \ {i})} :
                i \in {i \in I : \A j \in I : ~ByTimestampLess(s[j], s[i])}}

sortSort(s) == SortsOf(s, DOMAIN s)

RECURSIVE groupLoop(_, _, _, _)
groupLoop(sorted, n, acc, lastDate) ==
    IF n > Len(sorted) THEN acc
    ELSE LET p == sorted[n]
             date == Format(Deref(p.Timestamp))
             g == IF date # lastDate THEN Append(acc, <<>>) ELSE acc
             current == Len(g)
         IN groupLoop(sorted, n + 1,
                      [g EXCEPT ![current] = Append(g[current], p)], date)

\* the grouping of an already sorted slice
groupSorted(sorted) == groupLoop(sorted, 1, <<<<>>>>, "")

\* every value groupByDate(posts, "Jan 2006") can return
groupByDate(ps) == {groupSorted(sorted) : sorted \in sortSort(ps)}

\* ------------------------------------------------------------------- Init
InitTasks ==
    /\ tpc = [t \in Tasks |-> "idle"]
    /\ feedUrl = [t \in Tasks |-> Nil]
    /\ depth = [t \in Tasks |-> 0]
    /\ feedData = [t \in Tasks |-> Nil]
    /\ tposts = [t \in Tasks |-> <<>>]
    /\ sent = [t \in Tasks |-> 0]
    /\ err = [t \in Tasks |-> "nil"]
    /\ parseErr = [t \in Tasks |-> "nil"]
    /\ gets = [t \in Tasks |-> 0]

Init ==
    /\ args = <<>>
    /\ fileContents = <<>>
    /\ out = <<>>
    /\ feeds \in SeqUpTo(Targets, MaxFeeds)
    /\ mpc = "spawn"
    /\ spawned = 0
    /\ wg = 0
    /\ ctxDone = FALSE
    /\ postChan = <<>>
    /\ closed = FALSE
    /\ posts = <<>>
    /\ grouped = <<>>
    /\ panicked = FALSE
    /\ InitTasks

\* --------------------------------------------------------------- fetchAll
\* one iteration of "for _, f := range feeds": wg.Add(1); go func(f)
Spawn ==
    /\ mpc = "spawn"
    /\ spawned < Len(feeds)
    /\ spawned' = spawned + 1
    /\ wg' = wg + 1
    /\ tpc' = [tpc EXCEPT ![spawned + 1] = "do"]
    /\ feedUrl' = [feedUrl EXCEPT ![spawned + 1] = Ptr(feeds[spawned + 1])]
    /\ UNCHANGED <<args, fileContents, out, feeds, mpc, ctxDone, postChan, closed, posts, grouped,
                   panicked, depth, feedData, tposts, sent, err, parseErr,
                   gets>>

\* a mutant of Wait: fetchAll goes on without waiting for the goroutines
WaitNoJoin ==
    /\ mpc = "spawn"
    /\ spawned = Len(feeds)
    /\ mpc' = "close"
    /\ UNCHANGED <<args, fileContents, out, feeds, spawned, wg, ctxDone, postChan, closed, posts,
                   grouped, panicked>>
    /\ UNCHANGED taskVars

\* the spawn loop is over and wg.Wait() returns
Wait ==
    /\ mpc = "spawn"
    /\ spawned = Len(feeds)
    /\ wg = 0
    /\ mpc' = "close"
    /\ UNCHANGED <<args, fileContents, out, feeds, spawned, wg, ctxDone, postChan, closed, posts,
                   grouped, panicked>>
    /\ UNCHANGED taskVars

\* close(postChan)
Close ==
    /\ mpc = "close"
    /\ closed' = TRUE
    /\ mpc' = "drain"
    /\ UNCHANGED <<args, fileContents, out, feeds, spawned, wg, ctxDone, postChan, posts, grouped,
                   panicked>>
    /\ UNCHANGED taskVars

\* one iteration of "for p := range postChan"
Recv ==
    /\ mpc = "drain"
    /\ postChan # <<>>
    /\ posts' = Append(posts, Head(postChan))
    /\ postChan' = Tail(postChan)
    /\ UNCHANGED <<args, fileContents, out, feeds, mpc, spawned, wg, ctxDone, closed, grouped,
                   panicked>>
    /\ UNCHANGED taskVars

\* the range loop ends on the closed, empty channel; return posts, and the
\* deferred timeoutCancel() runs
Return ==
    /\ mpc = "drain"
    /\ postChan = <<>>
    /\ closed
    /\ mpc' = "returned"
    /\ ctxDone' = TRUE
    /\ UNCHANGED <<args, fileContents, out, feeds, spawned, wg, postChan, closed, posts, grouped,
                   panicked>>
    /\ UNCHANGED taskVars

\* FETCH_TIMEOUT elapses while fetchAll is running
Timeout ==
    /\ mpc \in {"spawn", "close", "drain"}
    /\ ~ctxDone
    /\ ctxDone' = TRUE
    /\ UNCHANGED <<args, fileContents, out, feeds, mpc, spawned, wg, postChan, closed, posts, grouped,
                   panicked>>
    /\ UNCHANGED taskVars

\* ------------------------------------------------- the per-feed goroutine
\* a mutant of Fail: err is one variable shared by all the goroutines
FailSharedErr(t, e) ==
    /\ tpc' = [tpc EXCEPT ![t] = "done"]
    /\ err' = [x \in Tasks |-> e]
    /\ wg' = wg - 1

\* fetchFeed returned the error e: the goroutine logs it and returns, and
\* the deferred wg.Done() runs
Fail(t, e) ==
    /\ tpc' = [tpc EXCEPT ![t] = "done"]
    /\ err' = [err EXCEPT ![t] = e]
    /\ wg' = wg - 1

\* the goroutine returns after its send loop, deferred wg.Done()
Finish(t) ==
    /\ tpc' = [tpc EXCEPT ![t] = "done"]
    /\ wg' = wg - 1

\* a mutant of clientDo: the request is not bound to ctx
clientDoNoContext(done) ==
    {[err |-> "Do", StatusCode |-> 0],
     [err |-> "nil", StatusCode |-> 200],
     [err |-> "nil", StatusCode |-> 404]}

\* what client.Do(req) can return for a request bound to ctx by
\* req.WithContext(ctx): once ctx is done the request fails
clientDo(done) ==
    IF done THEN {[err |-> "Do", StatusCode |-> 0]}
    ELSE {[err |-> "Do", StatusCode |-> 0],
          [err |-> "nil", StatusCode |-> 200],
          [err |-> "nil", StatusCode |-> 404]}

\* a mutant of requestDone: the request for a discovered URL is bound to a
\* context of its own
requestDoneFresh(d) == IF d = 0 THEN ctxDone ELSE FALSE

\* req.WithContext(ctx): every request of fetchFeed, at either depth, is
\* bound to the ctx fetchAll made
requestDone(d) == ctxDone

\* client.Do(req) and the status check
Do(t) ==
    /\ tpc[t] = "do"
    /\ gets' = [gets EXCEPT ![t] = @ + 1]
    /\ \E resp \in clientDo(requestDone(depth[t])) :
          IF resp.err # "nil"
          THEN Fail(t, "Do")
          ELSE IF resp.StatusCode < 200 \/ resp.StatusCode >= 300
          THEN Fail(t, "Status")
          ELSE /\ tpc' = [tpc EXCEPT ![t] = "read"]
               /\ UNCHANGED <<wg, err>>
    /\ UNCHANGED <<args, fileContents, out, feeds, mpc, spawned, ctxDone, postChan, closed, posts,
                   grouped, panicked, feedUrl, depth, feedData, tposts, sent,
                   parseErr>>

\* the error of feedParser.ParseString(string(contents))
ParseString(contents) ==
    IF contents.type = "feed" THEN "nil"
    ELSE IF contents.type = "html" THEN "ErrFeedTypeNotDetected"
    ELSE "Malformed"

\* a mutant of autodiscover: any parse error starts the discovery
autodiscoverAnyError(e, d) == e # "nil" /\ d = 0

\* a mutant of autodiscover: the depth is not looked at
autodiscoverAnyDepth(e, d) == e = "ErrFeedTypeNotDetected"

\* the condition under which fetchFeed looks for a feed link
autodiscover(e, d) == e = "ErrFeedTypeNotDetected" /\ d = 0

\* a mutant of recurseDepth: the recursive call passes its own depth on
recurseDepthSame(d) == d

\* the depth argument of the recursive call fetchFeed(ctx, newFeed, 1)
recurseDepth(d) == 1

\* a mutant of goroutinePosts: parseFeed is given the URL last fetched
goroutinePostsFetchedUrl(t, feed) == parseFeed(Deref(feedUrl[t]), feed)

\* posts, err := parseFeed(feed, feedData) in the goroutine of target t
goroutinePosts(t, feed) == parseFeed(feeds[t], feed)

\* a mutant of sendValue: every send pushes the last post of the slice
sendValueLast(t) == tposts[t][Len(tposts[t])]

\* p in "for _, p := range posts { postChan <- p }"
sendValue(t) == tposts[t][sent[t] + 1]

\* ioutil.ReadAll, feedParser.ParseString and the auto-discovery decision of
\* fetchFeed; when fetchFeed returns a feed, posts, err := parseFeed(feed,
\* feedData) in the goroutine, which returns at once when posts is empty
ReadBody(t) ==
    /\ tpc[t] = "read"
    /\ \/ \* ReadAll failed
          /\ Fail(t, "ReadAll")
          /\ UNCHANGED <<feedUrl, depth, feedData, tposts, parseErr>>
       \/ \E contents \in Bodies(ItemsBound(feeds)) :
             LET e == ParseString(contents) IN
             /\ parseErr' = [parseErr EXCEPT ![t] = e]
             /\ IF autodiscover(e, depth[t])
                THEN LET newFeed == extractFeedLink(Deref(feedUrl[t]), contents) IN
                     IF newFeed = Nil
                     THEN /\ Fail(t, "NoFeedLink")
                          /\ UNCHANGED <<feedUrl, depth, feedData, tposts>>
                     ELSE \* return fetchFeed(ctx, newFeed, 1)
                          /\ feedUrl' = [feedUrl EXCEPT ![t] = newFeed]
                          /\ depth' = [depth EXCEPT ![t] = recurseDepth(depth[t])]
                          /\ tpc' = [tpc EXCEPT ![t] = "do"]
                          /\ UNCHANGED <<wg, err, feedData, tposts>>
                ELSE IF e # "nil"
                THEN /\ Fail(t, e)
                     /\ UNCHANGED <<feedUrl, depth, feedData, tposts>>
                ELSE LET ps == goroutinePosts(t, Deref(contents.feed)) IN
                     /\ feedData' = [feedData EXCEPT ![t] = contents.feed]
                     /\ tposts' = [tposts EXCEPT ![t] = ps]
                     /\ IF ps = <<>>
                        THEN Finish(t)
                        ELSE /\ tpc' = [tpc EXCEPT ![t] = "send"]
                             /\ UNCHANGED wg
                     /\ UNCHANGED <<feedUrl, depth, err>>
    /\ UNCHANGED <<args, fileContents, out, feeds, mpc, spawned, ctxDone,
                   postChan, closed, posts, grouped, panicked, sent, gets>>

\* postChan <- p: blocks while the buffer is full, panics once it is closed;
\* after the last post the loop ends and the goroutine returns
Send(t) ==
    /\ tpc[t] = "send"
    /\ sent[t] < Len(tposts[t])
    /\ IF closed
       THEN /\ panicked' = TRUE
            /\ UNCHANGED <<postChan, sent, tpc, wg>>
       ELSE /\ Len(postChan) < ChanCap
            /\ postChan' = Append(postChan, sendValue(t))
            /\ sent' = [sent EXCEPT ![t] = @ + 1]
            /\ IF sent[t] + 1 = Len(tposts[t])
               THEN Finish(t)
               ELSE UNCHANGED <<tpc, wg>>
            /\ UNCHANGED panicked
    /\ UNCHANGED <<args, fileContents, out, feeds, mpc, spawned, ctxDone, closed, posts, grouped,
                   feedUrl, depth, feedData, tposts, gets, err, parseErr>>

\* ---------------------------------------------------------------- render
\* the number of bytes of a character in UTF-8
Utf8Len(c) == IF c = "t" THEN 1 ELSE 2

\* len(s) of a Go string: its length in bytes
RECURSIVE len(_)
len(s) == IF s = <<>> THEN 0 ELSE Utf8Len(Head(s)) + len(Tail(s))

\* the width fmt pads to is counted in characters (runes)
RuneCount(s) == Len(s)

\* the 70 of "len(p.Title) > 70", "%-70v" and "%70v"
TitleColumn == 70

\* "%-70v" and "%70v": the spaces added to a value of n characters
padding(n) == IF n < TitleColumn THEN TitleColumn - n ELSE 0

\* the lines render prints for one post
postLines(p) ==
    IF len(p.Title) > TitleColumn
    THEN <<[kind |-> "title", date |-> "", title |-> p.Title, pad |-> 0,
            link |-> ""],
           [kind |-> "link", date |-> "", title |-> <<>>,
            pad |-> padding(0), link |-> p.Link]>>
    ELSE <<[kind |-> "post", date |-> "", title |-> p.Title,
            pad |-> padding(RuneCount(p.Title)), link |-> p.Link]>>

\* printPost of the map-keyed version: the same layout
postLinesKeyed(p) ==
    IF len(p.Title) > TitleColumn
    THEN <<[kind |-> "title", date |-> "", title |-> p.Title, pad |-> 0,
            link |-> <<>>],
           [kind |-> "link", date |-> "", title |-> <<>>,
            pad |-> padding(0), link |-> p.Link]>>
    ELSE <<[kind |-> "post", date |-> "", title |-> p.Title,
            pad |-> padding(RuneCount(p.Title)), link |-> p.Link]>>

\* the inner loop of render: the date before the first post of a group
RECURSIVE groupLines(_, _)
groupLines(group, i) ==
    IF i > Len(group) THEN <<>>
    ELSE (IF i = 1
          THEN <<[kind |-> "date", date |-> Format(Deref(group[i].Timestamp)),
                  title |-> <<>>, pad |-> 0, link |-> ""]>>
          ELSE <<>>)
         \o postLines(group[i]) \o groupLines(group, i + 1)

\* the outer loop of render
RECURSIVE renderLines(_)
renderLines(g) ==
    IF g = <<>> THEN <<>> ELSE groupLines(Head(g), 1) \o renderLines(Tail(g))

\* render(posts, "Jan 2006"): groupByDate sorts posts in place and groups,
\* and the groups are printed
Render ==
    /\ mpc = "returned"
    /\ \E sorted \in sortSort(posts) :
          /\ posts' = sorted
          /\ grouped' = groupSorted(sorted)
          /\ out' = renderLines(groupSorted(sorted))
    /\ mpc' = "rendered"
    /\ UNCHANGED <<args, fileContents, feeds, spawned, wg, ctxDone, postChan, closed, panicked>>
    /\ UNCHANGED taskVars

\* ------------------------------------------------------------------ main
\* The text of an argument or of a file is a sequence of pieces, each the
\* text of a URL, the character "%" (never followed by two hex digits here),
\* a newline, a file name or the word version.
UrlText == "http://a/p"
FileName == "feeds.txt"
Newline == "\n"

\* the pieces of s as one string
RECURSIVE Join(_)
Join(s) == IF s = <<>> THEN "" ELSE Head(s) \o Join(Tail(s))

\* url.Parse: an invalid escape is an error; text that starts with
\* http://a/p is a URL of host a; the empty string is the empty URL
urlParse(l) ==
    IF \E k \in DOMAIN l : l[k] = "%"
    THEN [err |-> "EscapeError", u |-> Nil]
    ELSE IF l # <<>> /\ Head(l) = UrlText
    THEN [err |-> "nil",
          u |-> Ptr([host |-> "a", path |-> "/p" \o Join(Tail(l))])]
    ELSE [err |-> "nil", u |-> Ptr([host |-> "", path |-> Join(l)])]

\* strings.Split(s, "\n")
RECURSIVE splitLoop(_, _, _)
splitLoop(s, line, lines) ==
    IF s = <<>> THEN Append(lines, line)
    ELSE IF Head(s) = Newline
    THEN splitLoop(Tail(s), <<>>, Append(lines, line))
    ELSE splitLoop(Tail(s), Append(line, Head(s)), lines)

Split(s) == splitLoop(s, <<>>, <<>>)

\* a mutant of skipLine: empty lines are parsed like the others
skipLineNever(l) == FALSE

\* if l == "" { continue }
skipLine(l) == l = <<>>

\* the loop of parseFeedArg over the lines: the URLs, or the first error
RECURSIVE parseLinesLoop(_, _)
parseLinesLoop(lines, urls) ==
    IF lines = <<>> THEN [err |-> "nil", urls |-> urls]
    ELSE IF skipLine(Head(lines)) THEN parseLinesLoop(Tail(lines), urls)
    ELSE LET r == urlParse(Head(lines)) IN
         IF r.err # "nil" THEN [err |-> r.err, urls |-> <<>>]
         ELSE parseLinesLoop(Tail(lines), Append(urls, Deref(r.u)))

\* what os.Stat can answer for an argument on this machine: feeds.txt is a
\* regular file or cannot be examined, "%" may be a directory, nothing is
\* named like a URL
osStat(feed) ==
    IF feed = <<FileName>> THEN {"Regular", "Error"}
    ELSE IF feed = <<"%">> THEN {"NotExist", "NotRegular"}
    ELSE {"NotExist"}

\* what feeds.txt can hold when main is run
MainFiles ==
    {<<>>,
     <<Newline>>,
     <<UrlText, Newline>>,
     <<UrlText, Newline, UrlText, Newline>>,
     <<UrlText, Newline, "%", Newline>>,
     <<"%", Newline, UrlText>>}

\* what ioutil.ReadFile can return
ioutilReadFile(st) ==
    IF st = "Regular"
    THEN {[err |-> "nil", contents |-> c] : c \in MainFiles}
         \cup {[err |-> "ReadFile", contents |-> <<>>]}
    ELSE {[err |-> "ReadFile", contents |-> <<>>]}

\* the argument lists main is run with
MainArgs ==
    {<<>>,
     <<<<"version">>>>,
     <<<<UrlText>>>>,
     <<<<"%">>>>,
     <<<<FileName>>>>,
     <<<<UrlText>>, <<"%">>>>,
     <<<<"%">>, <<UrlText>>>>,
     <<<<UrlText>>, <<FileName>>>>,
     <<<<FileName>>, <<UrlText>>>>}

\* flag.Parse() to the start of the loop over feedsList
Start ==
    /\ mpc = "main"
    /\ mpc' = IF Len(args) = 0 THEN "exit1"
              ELSE IF args[1] = <<"version">> THEN "version"
              ELSE "resolve"
    /\ UNCHANGED <<args, fileContents, out, feeds, spawned, wg, ctxDone,
                   postChan, closed, posts, grouped, panicked>>
    /\ UNCHANGED taskVars

\* a mutant of resolveFailed: the argument is skipped and the loop goes on
resolveFailedSkip ==
    /\ args' = Tail(args)
    /\ mpc' = IF Tail(args) = <<>> THEN "fetch" ELSE "resolve"
    /\ UNCHANGED feeds

\* parseFeedArg returned an error: main prints it and os.Exit(1)
resolveFailed ==
    /\ mpc' = "exit1"
    /\ UNCHANGED <<args, feeds>>

\* parseFeedArg returned newFeeds: feeds = append(feeds, newFeeds...), and
\* the loop goes to the next argument or ends
resolved(newFeeds) ==
    /\ feeds' = feeds \o newFeeds
    /\ args' = Tail(args)
    /\ mpc' = IF Tail(args) = <<>> THEN "fetch" ELSE "resolve"

\* parseFeedArg(f) up to ioutil.ReadFile: an argument that is not a file is
\* parsed as a URL
ParseFeedArg ==
    /\ mpc = "resolve"
    /\ \E st \in osStat(Head(args)) :
          IF st \in {"NotExist", "NotRegular"}
          THEN LET r == urlParse(Head(args)) IN
               /\ IF r.err # "nil"
                  THEN resolveFailed
                  ELSE resolved(<<Deref(r.u)>>)
               /\ UNCHANGED fileContents
          ELSE \E rd \in ioutilReadFile(st) :
                  IF rd.err # "nil"
                  THEN /\ resolveFailed
                       /\ UNCHANGED fileContents
                  ELSE /\ fileContents' = rd.contents
                       /\ mpc' = "lines"
                       /\ UNCHANGED <<args, feeds>>
    /\ UNCHANGED <<out, spawned, wg, ctxDone, postChan, closed, posts, grouped,
                   panicked>>
    /\ UNCHANGED taskVars

\* parseFeedArg(f) after ioutil.ReadFile: the file is split in lines and the
\* lines are parsed
ParseFeedArgLines ==
    /\ mpc = "lines"
    /\ LET r == parseLinesLoop(Split(fileContents), <<>>) IN
       IF r.err # "nil" THEN resolveFailed ELSE resolved(r.urls)
    /\ UNCHANGED <<fileContents, out, spawned, wg, ctxDone, postChan, closed,
                   posts, grouped, panicked>>
    /\ UNCHANGED taskVars

\* posts := fetchAll(ctx, feeds): context.WithTimeout arms the deadline; the
\* locals of the resolution are dead
FetchAll ==
    /\ mpc = "fetch"
    /\ Len(feeds) <= MaxFeeds
    /\ mpc' = "spawn"
    /\ ctxDone' = FALSE
    /\ fileContents' = <<>>
    /\ UNCHANGED <<args, out, feeds, spawned, wg, postChan, closed, posts,
                   grouped, panicked>>
    /\ UNCHANGED taskVars

Next ==
    \/ Spawn
    \/ Wait
    \/ Close
    \/ Recv
    \/ Return
    \/ Timeout
    \/ \E t \in Tasks : Do(t)
    \/ \E t \in Tasks : ReadBody(t)
    \/ \E t \in Tasks : Send(t)
    \/ Render

Spec == Init /\ [][Next]_vars

\* --------------------------------------------------- main from its start
InitMain ==
    /\ args \in MainArgs
    /\ fileContents = <<>>
    /\ out = <<>>
    /\ feeds = <<>>
    /\ mpc = "main"
    /\ spawned = 0
    /\ wg = 0
    /\ ctxDone = FALSE
    /\ postChan = <<>>
    /\ closed = FALSE
    /\ posts = <<>>
    /\ grouped = <<>>
    /\ panicked = FALSE
    /\ InitTasks

NextMain ==
    \/ Start
    \/ ParseFeedArg
    \/ ParseFeedArgLines
    \/ FetchAll
    \/ Next

SpecMain == InitMain /\ [][NextMain]_vars

\* ---------------------------------------- parseFeedArg on a file it read
\* main is in parseFeedArg, which has read the file its argument names
InitArg ==
    /\ args \in {<<<<FileName>>>>, <<<<FileName>>, <<UrlText>>>>}
    /\ fileContents \in SeqUpTo({UrlText, "%", Newline}, MaxFileLen)
    /\ out = <<>>
    /\ feeds \in {<<>>, <<[host |-> "a", path |-> "/p"]>>}
    /\ mpc = "lines"
    /\ spawned = 0
    /\ wg = 0
    /\ ctxDone = FALSE
    /\ postChan = <<>>
    /\ closed = FALSE
    /\ posts = <<>>
    /\ grouped = <<>>
    /\ panicked = FALSE
    /\ InitTasks

NextArg == ParseFeedArgLines

SpecArg == InitArg /\ [][NextArg]_vars

\* ------------------------------------------- render on its own collection
\* main has obtained a Post collection from fetchAll and calls render
InitGroup ==
    /\ args = <<>>
    /\ fileContents = <<>>
    /\ out = <<>>
    /\ feeds = <<>>
    /\ mpc = "returned"
    /\ spawned = 0
    /\ wg = 0
    /\ ctxDone = TRUE
    /\ postChan = <<>>
    /\ closed = TRUE
    /\ posts \in SeqUpTo([Title : {<<"t">>}, Link : {"l1", "l2"},
                          Timestamp : {Ptr(t) : t \in Times},
                          FeedLink : {String([host |-> "a", path |-> "/f"])},
                          FeedTitle : {"F"}], MaxPosts)
    /\ grouped = <<>>
    /\ panicked = FALSE
    /\ InitTasks

NextGroup == Render

SpecGroup == InitGroup /\ [][NextGroup]_vars

\* ------------------------------------------- the map-keyed version of main
\* (fetchFeeds collects the Posts in a map keyed by "<unix seconds>-<link>"
\* and main renders them in reverse-sorted key order)
DigitChars == <<"0", "1", "2", "3", "4", "5", "6", "7", "8", "9">>

\* the byte of a character of a key
Ord(c) ==
    IF c = "-" THEN 45
    ELSE IF \E k \in DOMAIN DigitChars : DigitChars[k] = c
    THEN 47 + (CHOOSE k \in DOMAIN DigitChars : DigitChars[k] = c)
    ELSE IF c = "a" THEN 97
    ELSE 98

\* "%d" of a non-negative integer
RECURSIVE formatDigits(_)
formatDigits(n) ==
    IF n < 10 THEN <<DigitChars[n + 1]>>
    ELSE formatDigits(n \div 10) \o <<DigitChars[(n % 10) + 1]>>

\* "%d"
formatInt(n) == IF n < 0 THEN <<"-">> \o formatDigits(0 - n) ELSE formatDigits(n)

\* fmt.Sprintf("%d-%s", p.Timestamp.Unix(), p.Link)
Sprintf(p) == formatInt(Deref(p.Timestamp).unix) \o <<"-">> \o p.Link

\* a < b on Go strings: byte by byte, a proper prefix being smaller
RECURSIVE stringLess(_, _)
stringLess(a, b) ==
    IF b = <<>> THEN FALSE
    ELSE IF a = <<>> THEN TRUE
    ELSE IF Ord(Head(a)) # Ord(Head(b)) THEN Ord(Head(a)) < Ord(Head(b))
    ELSE stringLess(Tail(a), Tail(b))

\* sort.Sort(sort.Reverse(sort.StringSlice(keys))) on the keys of a map,
\* which are distinct: the largest string first
RECURSIVE sortReverse(_)
sortReverse(ks) ==
    IF ks = {} THEN <<>>
    ELSE LET k == CHOOSE x \in ks : \A y \in ks : ~stringLess(x, y) IN
         <<k>> \o sortReverse(ks \ {k})

\* the loop of render over the keys: the date when it changes, then the post
RECURSIVE renderKeys(_, _, _, _)
renderKeys(postsByTime, keys, i, lastDate) ==
    IF i > Len(keys) THEN <<>>
    ELSE LET p == postsByTime[keys[i]]
             date == Format(Deref(p.Timestamp))
         IN (IF date # lastDate
             THEN <<[kind |-> "date", date |-> date, title |-> <<>>,
                     pad |-> 0, link |-> <<>>]>>
             ELSE <<>>)
            \o postLinesKeyed(p) \o renderKeys(postsByTime, keys, i + 1, date)

\* one iteration of "for p := range postChan" in fetchFeeds: the Post is
\* stored under its key
RecvKeyed ==
    /\ mpc = "drain"
    /\ postChan # <<>>
    /\ LET p == Head(postChan)
           key == Sprintf(p)
       IN posts' = [k \in DOMAIN posts \cup {key} |->
                       IF k = key THEN p ELSE posts[k]]
    /\ postChan' = Tail(postChan)
    /\ UNCHANGED <<args, fileContents, out, feeds, mpc, spawned, wg, ctxDone,
                   closed, grouped, panicked>>
    /\ UNCHANGED taskVars

\* the range loop ends on the closed, empty channel: return postsByTime
ReturnKeyed ==
    /\ mpc = "drain"
    /\ postChan = <<>>
    /\ closed
    /\ mpc' = "returned"
    /\ UNCHANGED <<args, fileContents, out, feeds, spawned, wg, ctxDone,
                   postChan, closed, posts, grouped, panicked>>
    /\ UNCHANGED taskVars

\* main after fetchFeeds: the keys are collected, reverse-sorted and render
\* walks them
RenderKeyed ==
    /\ mpc = "returned"
    /\ LET keys == sortReverse(DOMAIN posts) IN
       out' = renderKeys(posts, keys, 1, "")
    /\ mpc' = "rendered"
    /\ UNCHANGED <<args, fileContents, feeds, spawned, wg, ctxDone, postChan,
                   closed, posts, grouped, panicked>>
    /\ UNCHANGED taskVars

\* the instants of the Posts drained: before the epoch, after it, and on both
\* sides of a change in the number of digits
KeyedUnix == {-2, -1, 2, 9, 10}

\* fetchFeeds has closed postChan, which holds the Posts of the feeds; their
\* timestamps are in one zone, in which 9 and 10 fall in the same month
InitKeyed ==
    /\ args = <<>>
    /\ fileContents = <<>>
    /\ out = <<>>
    /\ feeds = <<>>
    /\ mpc = "drain"
    /\ spawned = 0
    /\ wg = 0
    /\ ctxDone = FALSE
    /\ postChan \in SeqUpTo([Title : {<<"t">>}, Link : {<<"a">>, <<"b">>},
                             Timestamp : {Ptr([unix |-> u, off |-> 1]) :
                                             u \in KeyedUnix},
                             FeedLink : {String([host |-> "a", path |-> "/f"])},
                             FeedTitle : {"F"}], MaxKeyedPosts)
    /\ closed = TRUE
    /\ posts = <<>>
    /\ grouped = <<>>
    /\ panicked = FALSE
    /\ InitTasks

NextKeyed ==
    \/ RecvKeyed
    \/ ReturnKeyed
    \/ RenderKeyed

SpecKeyed == InitKeyed /\ [][NextKeyed]_vars

\* ------------------------------------------------- render and its titles
\* a title of a ASCII letters followed by e characters outside ASCII
TitleOf(a, e) == [k \in 1..(a + e) |-> IF k <= a THEN "t" ELSE "U+00E9"]

\* titles around the column width, in characters and in bytes
RenderTitles ==
    {TitleOf(1, 0), TitleOf(TitleColumn - 1, 0), TitleOf(TitleColumn, 0),
     TitleOf(TitleColumn + 1, 0), TitleOf(TitleColumn - 1, 1),
     TitleOf(0, TitleColumn \div 2), TitleOf(0, TitleColumn \div 2 + 1)}

\* main has obtained a Post collection from fetchAll and calls render
InitRender ==
    /\ args = <<>>
    /\ fileContents = <<>>
    /\ out = <<>>
    /\ feeds = <<>>
    /\ mpc = "returned"
    /\ spawned = 0
    /\ wg = 0
    /\ ctxDone = TRUE
    /\ postChan = <<>>
    /\ closed = TRUE
    /\ posts \in SeqUpTo([Title : RenderTitles, Link : {"l1"},
                          Timestamp : {Ptr(PublishedTime), Ptr(UpdatedTime)},
                          FeedLink : {String([host |-> "a", path |-> "/f"])},
                          FeedTitle : {"F"}], MaxRenderPosts)
    /\ grouped = <<>>
    /\ panicked = FALSE
    /\ InitTasks

NextRender == Render

SpecRender == InitRender /\ [][NextRender]_vars

\* ============================================================ properties
\* occurrences of x in the sequence q
Count(q, x) == Cardinality({k \in DOMAIN q : q[k] = x})

\* f[1] + ... + f[n]
RECURSIVE SumTo(_, _)
SumTo(f, n) == IF n = 0 THEN 0 ELSE f[n] + SumTo(f, n - 1)

Range(q) == {q[k] : k \in DOMAIN q}

Spawned == 1..Len(feeds)
FetchAllReturned == mpc \in {"returned", "rendered"}

\* C1: a failing target (transport error, non-2xx status, unrecognized or
\* malformed feed) never brings the process down, ends its goroutine with
\* wg.Done() so that wg.Wait() is not held up by it, and contributes no Post;
\* when fetchAll returns, the returned collection holds, for every target
\* that did not fail, exactly the Posts of its own feed, whatever the other
\* targets did.
C1_FailureIsolation ==
    /\ ~panicked
    /\ \A t \in Spawned :
          err[t] # "nil" =>
             /\ tpc[t] = "done"
             /\ tposts[t] = <<>>
             /\ sent[t] = 0
             /\ feedData[t] = Nil
    /\ (spawned = Len(feeds) /\ \A t \in Spawned : tpc[t] = "done") => wg = 0
    /\ FetchAllReturned =>
          LET own == [t \in Spawned |->
                        IF err[t] = "nil"
                        THEN parseFeed(feeds[t], Deref(feedData[t]))
                        ELSE <<>>]
          IN \A p \in Range(posts) \cup UNION {Range(own[t]) : t \in Spawned} :
                Count(posts, p) =
                   SumTo([t \in Spawned |-> Count(own[t], p)], Len(feeds))

C1_Witness ==
    /\ mpc = "returned"
    /\ \E t1, t2 \in Spawned :
          /\ err[t1] # "nil"
          /\ err[t2] = "nil"
          /\ tposts[t2] # <<>>
    /\ posts # <<>>

\* C2 (as stated): once the deadline has elapsed the goroutines still running
\* are abandoned, so a goroutine that finishes after the deadline has pushed
\* no Post that fetchAll returns.
C2_Original ==
    [][\A t \in Tasks :
          (ctxDone /\ ~FetchAllReturned /\ tpc[t] # "done" /\ tpc'[t] = "done")
             => sent'[t] = 0]_vars

\* C2 (amended): once the deadline has elapsed every GET fails and its
\* goroutine ends having contributed no Post; fetchAll does not abandon the
\* goroutines still running: it leaves wg.Wait() only when all of them have
\* returned, so the Posts of a goroutine that already had its response are
\* returned even when it finishes after the deadline.
C2_DeadlineFailsRequests ==
    [][/\ \A t \in Tasks :
             (ctxDone /\ tpc[t] = "do" /\ tpc'[t] # "do")
                => tpc'[t] = "done" /\ err'[t] = "Do" /\ tposts'[t] = <<>>
                   /\ sent'[t] = 0
       /\ (mpc = "spawn" /\ mpc' # "spawn")
             => \A t \in Spawned : tpc[t] = "done"]_vars

\* the deadline has elapsed while fetchAll waits: one goroutine's GET has
\* failed, another one has its feed and is still sending
C2_Witness ==
    /\ ctxDone
    /\ mpc = "spawn"
    /\ spawned = Len(feeds)
    /\ \E t1, t2 \in Spawned :
          /\ tpc[t1] = "done"
          /\ err[t1] = "Do"
          /\ tpc[t2] = "send"
          /\ sent[t2] < Len(tposts[t2])

\* C3: the channel is closed and drained only when every spawned goroutine
\* has returned, so no goroutine sends on a closed channel and none is
\* running when fetchAll returns.
C3_JoinBeforeReturn ==
    /\ (closed \/ mpc \in {"close", "drain", "returned", "rendered"})
          => /\ spawned = Len(feeds)
             /\ \A t \in Spawned : tpc[t] = "done"
             /\ wg = 0
    /\ ~panicked

C3_Witness ==
    /\ closed
    /\ mpc = "drain"
    /\ Len(feeds) >= 2
    /\ Len(postChan) >= 2
    /\ \A t \in Spawned : tpc[t] = "done" /\ sent[t] > 0

\* C4: exactly one goroutine is started per list entry (duplicates
\* included), every Post pushed on the channel is in the channel or in the
\* returned slice exactly once, and when fetchAll returns the slice is, as a
\* multiset, the Posts parseFeed emitted for the targets whose fetch
\* succeeded.
C4_ExactlyOnce ==
    /\ spawned <= Len(feeds)
    /\ \A t \in Tasks : (tpc[t] # "idle") <=> (t <= spawned)
    /\ \A t \in Tasks :
          (tpc[t] # "idle" /\ depth[t] = 0) => feedUrl[t] = Ptr(feeds[t])
    /\ wg = Cardinality({t \in Tasks : tpc[t] \notin {"idle", "done"}})
    /\ \A p \in Range(postChan) \cup Range(posts)
                \cup UNION {Range(tposts[t]) : t \in Tasks} :
          Count(postChan, p) + Count(posts, p) =
             SumTo([t \in Tasks |-> Count(SubSeq(tposts[t], 1, sent[t]), p)],
                   MaxFeeds)
    /\ FetchAllReturned =>
          /\ postChan = <<>>
          /\ \A t \in Spawned :
                /\ sent[t] = Len(tposts[t])
                /\ tposts[t] = IF err[t] = "nil"
                               THEN parseFeed(feeds[t], Deref(feedData[t]))
                               ELSE <<>>

C4_Witness ==
    /\ mpc = "returned"
    /\ Len(feeds) = 2
    /\ feeds[1] = feeds[2]
    /\ \A t \in Spawned : Len(tposts[t]) = 1
    /\ Len(posts) = 2

\* C5: fetchFeed never runs with a depth above 1 and no target is the
\* subject of more than two GETs, whatever the pages link to.
C5_BoundedDiscovery ==
    \A t \in Tasks :
       /\ depth[t] \in {0, 1}
       /\ gets[t] <= 2
       /\ gets[t] <= depth[t] + 1

\* a page whose feed link pointed to itself was fetched twice and given up
C5_Witness ==
    \E t \in Spawned :
       /\ tpc[t] = "done"
       /\ depth[t] = 1
       /\ gets[t] = 2
       /\ feedUrl[t] = Ptr(feeds[t])
       /\ err[t] = "ErrFeedTypeNotDetected"

\* C6: when the depth-0 body is not a recognized feed and a feed link is
\* extracted, the linked URL is fetched at depth 1; a depth-1 body that is
\* not a recognized feed either makes fetchFeed return the parser's error
\* with no further link scan or GET and the target contributes no Post; a
\* depth-0 body without a feed link makes fetchFeed fail with no second GET.
C6_DiscoveryFailure ==
    \A t \in Tasks :
       /\ depth[t] = 1 =>
             \/ tpc[t] = "do" /\ gets[t] = 1
             \/ tpc[t] # "do" /\ gets[t] = 2
       /\ err[t] = "ErrFeedTypeNotDetected" =>
             /\ tpc[t] = "done"
             /\ depth[t] = 1
             /\ gets[t] = 2
             /\ tposts[t] = <<>>
             /\ sent[t] = 0
       /\ err[t] = "NoFeedLink" =>
             /\ tpc[t] = "done"
             /\ depth[t] = 0
             /\ gets[t] = 1
             /\ tposts[t] = <<>>
             /\ sent[t] = 0

C6_Witness ==
    /\ mpc = "returned"
    /\ \E t1, t2 \in Spawned :
          /\ err[t1] = "ErrFeedTypeNotDetected"
          /\ feedUrl[t1] # Ptr(feeds[t1])
          /\ err[t2] = "NoFeedLink"

\* C7 (as stated): the FeedLink of every Post emitted for a target is the
\* URL that was actually fetched to obtain the feed, the auto-discovered one
\* when discovery occurred.
C7_Original ==
    \A t \in Tasks : \A k \in DOMAIN tposts[t] :
       tposts[t][k].FeedLink = String(Deref(feedUrl[t]))

\* C7 (amended): the FeedLink of every Post emitted for a target is the
\* URL the user supplied for that target, also when the feed was obtained
\* from an auto-discovered URL.
C7_FeedLinkIsTarget ==
    /\ \A t \in Tasks : \A k \in DOMAIN tposts[t] :
          tposts[t][k].FeedLink = String(feeds[t])
    /\ \A p \in Range(postChan) \cup Range(posts) :
          \E t \in Spawned : p.FeedLink = String(feeds[t])

C7_Witness ==
    /\ mpc = "returned"
    /\ posts # <<>>
    /\ \E t \in Spawned :
          /\ depth[t] = 1
          /\ feedUrl[t] # Ptr(feeds[t])
          /\ tposts[t] # <<>>

\* C8: parseFeed emits, in item order, one Post per item that has a
\* published or an updated time, with the published time when it is present
\* and the updated time otherwise; an item with neither is skipped without
\* failing the feed or dropping another item; every Post on the channel, in
\* the returned slice and in the grouper's buckets has a non-nil Timestamp.
Resolvable(i) == i.PublishedParsed # Nil \/ i.UpdatedParsed # Nil

C8_TimestampResolution ==
    /\ \A t \in Tasks :
          feedData[t] # Nil =>
             LET its == SelectSeq(Deref(feedData[t]).Items, Resolvable) IN
             /\ err[t] = "nil"
             /\ Len(tposts[t]) = Len(its)
             /\ \A k \in DOMAIN its :
                   /\ tposts[t][k].Timestamp =
                         IF its[k].PublishedParsed # Nil
                         THEN its[k].PublishedParsed
                         ELSE its[k].UpdatedParsed
                   /\ tposts[t][k].Title = its[k].Title
                   /\ tposts[t][k].Link = its[k].Link
    /\ \A p \in Range(postChan) \cup Range(posts) : p.Timestamp # Nil
    /\ \A b \in DOMAIN grouped : \A p \in Range(grouped[b]) : p.Timestamp # Nil

\* a feed with an item that has both times, one with only the updated time
\* and one with neither went through to the grouper
C8_Witness ==
    /\ mpc = "rendered"
    /\ \E t \in Spawned :
          LET items == Deref(feedData[t]).Items IN
          /\ feedData[t] # Nil
          /\ Len(items) = 3
          /\ \E k \in DOMAIN items : ~Resolvable(items[k])
          /\ \E k \in DOMAIN items :
                items[k].PublishedParsed = Nil /\ items[k].UpdatedParsed # Nil
          /\ \E k \in DOMAIN items :
                items[k].PublishedParsed # Nil /\ items[k].UpdatedParsed # Nil
          /\ Len(posts) = 2

\* the position of a label in time-period order
LabelIndex(l) == CHOOSE k \in DOMAIN MonthNames : MonthNames[k] = l
\* the label render prints for a bucket: that of its first Post
BucketLabel(b) == Format(Deref(b[1].Timestamp))
NonEmptyBucket(b) == b # <<>>

\* C9: the labels of the buckets groupByDate returns are strictly decreasing
\* in time-period order and every Post of a bucket falls in the bucket's
\* period, also for Posts whose timestamps have different zone offsets.
C9_BucketMonotonicity ==
    mpc = "rendered" =>
       LET bs == SelectSeq(grouped, NonEmptyBucket) IN
       /\ \A k \in 1..(Len(bs) - 1) :
             LabelIndex(BucketLabel(bs[k])) > LabelIndex(BucketLabel(bs[k + 1]))
       /\ \A k \in DOMAIN bs : \A p \in Range(bs[k]) :
             Format(Deref(p.Timestamp)) = BucketLabel(bs[k])

\* C10: every bucket groupByDate returns holds at least one Post.
C10_NonEmptyBuckets ==
    mpc = "rendered" => \A b \in DOMAIN grouped : grouped[b] # <<>>

\* C11: groupByDate applied to an empty Post collection returns a grouped
\* result with zero buckets.
C11_EmptyGrouping ==
    (mpc = "rendered" /\ posts = <<>>) => Len(grouped) = 0

\* the buckets of a grouped result, concatenated
RECURSIVE Flatten(_)
Flatten(g) == IF g = <<>> THEN <<>> ELSE Head(g) \o Flatten(Tail(g))

Instant(p) == Deref(p.Timestamp).unix

\* C12: in the concatenation of the buckets groupByDate returns, a Post
\* precedes a Post with a different instant only if its own instant is
\* strictly later: instants never increase across the whole result, nor
\* within a bucket.
C12_DescendingOrder ==
    mpc = "rendered" =>
       LET flat == Flatten(grouped) IN
       /\ \A i, j \in DOMAIN flat :
             (i < j /\ Instant(flat[i]) # Instant(flat[j]))
                => Instant(flat[i]) > Instant(flat[j])
       /\ \A b \in DOMAIN grouped : \A i, j \in DOMAIN grouped[b] :
             i < j => Instant(grouped[b][i]) >= Instant(grouped[b][j])

\* three Posts at two different instants and in two zones were grouped into
\* more than one non-empty bucket
C12_Witness ==
    /\ mpc = "rendered"
    /\ Len(posts) = 3
    /\ Cardinality({Instant(posts[k]) : k \in DOMAIN posts}) = 2
    /\ Cardinality({Deref(posts[k].Timestamp).off : k \in DOMAIN posts}) = 2
    /\ Cardinality({b \in DOMAIN grouped : grouped[b] # <<>>}) >= 2

\* C13: the concatenation of the buckets groupByDate returns is a
\* permutation of the collection it was given (no Post dropped or
\* duplicated), and two Posts with identical Timestamp but different Links
\* are both in the result, in the same bucket.
C13_GroupingPreservesPosts ==
    [][(mpc = "returned" /\ mpc' = "rendered") =>
          LET flat == Flatten(grouped') IN
          /\ Len(flat) = Len(posts)
          /\ \A p \in Range(posts) \cup Range(flat) :
                Count(flat, p) = Count(posts, p)
          /\ \A i, j \in DOMAIN posts :
                (posts[i].Timestamp = posts[j].Timestamp
                 /\ posts[i].Link # posts[j].Link)
                   => \E b \in DOMAIN grouped' :
                         {posts[i], posts[j]} \subseteq Range(grouped'[b])]_vars

\* C14: whenever the resolution of all the arguments yields an empty list
\* of feed URLs, the run ends with the fatal exit and neither fetchAll nor
\* render runs on the empty list.
C14_EmptyTargetListFatal ==
    /\ (mpc # "main" /\ args = <<>> /\ feeds = <<>>) => mpc = "exit1"
    /\ mpc \in {"spawn", "close", "drain", "returned", "rendered"}
          => feeds # <<>>

\* the resolution of main is running
Resolving == mpc \in {"main", "resolve", "lines"}

\* the argument parseFeedArg is about to fail on
ResolutionFails ==
    \/ /\ mpc = "resolve"
       /\ osStat(Head(args)) \subseteq {"NotExist", "NotRegular"}
       /\ urlParse(Head(args)).err # "nil"
    \/ /\ mpc = "resolve"
       /\ osStat(Head(args)) = {"Error"}
    \/ /\ mpc = "lines"
       /\ \E k \in DOMAIN fileContents : fileContents[k] = "%"

\* C15: no GET is issued, no goroutine started and nothing rendered until
\* every argument has been resolved; when the resolution of an argument
\* fails, at whatever position, main exits with status 1 and the process does
\* nothing more: no GET, no goroutine, no output.
C15_ResolveThenFetch ==
    [][/\ \A t \in Tasks :
             (gets'[t] # gets[t] \/ tpc'[t] # tpc[t])
                => (args = <<>> /\ ~Resolving /\ mpc # "exit1")
       /\ out' # out => (args = <<>> /\ ~Resolving /\ mpc # "exit1")
       /\ ResolutionFails => mpc' = "exit1"
       /\ mpc' = "exit1" =>
             /\ \A t \in Tasks : gets[t] = 0 /\ tpc[t] = "idle"
             /\ spawned = 0
             /\ out = <<>>
       /\ mpc # "exit1"]_vars

\* the second argument failed to resolve after the first had been resolved
C15_Witness ==
    /\ mpc = "exit1"
    /\ Len(feeds) = 1
    /\ Len(args) = 1
    /\ \A t \in Tasks : gets[t] = 0
    /\ out = <<>>

\* the non-empty lines of a text, in order: a line starts at a piece that
\* is not a newline and is the first piece or follows a newline, and runs to
\* the piece before the next newline
LineStarts(c) ==
    {i \in DOMAIN c : c[i] # Newline /\ (i = 1 \/ c[i - 1] = Newline)}
LineEnd(c, i) ==
    CHOOSE j \in i..Len(c) :
       /\ \A k \in i..j : c[k] # Newline
       /\ j = Len(c) \/ c[j + 1] = Newline
NthStart(c, n) ==
    CHOOSE i \in LineStarts(c) :
       Cardinality({x \in LineStarts(c) : x < i}) = n - 1
NonEmptyLines(c) ==
    [n \in 1..Cardinality(LineStarts(c)) |->
        SubSeq(c, NthStart(c, n), LineEnd(c, NthStart(c, n)))]

\* C16: for a file it has read, parseFeedArg returns the non-empty lines of
\* the file parsed as URLs, in file order, one target per such line and none
\* for an empty line (the one after a final newline included); when a line
\* fails to parse it returns an error and no URL, and main exits.
C16_FileResolution ==
    [][mpc = "lines" =>
          LET ls == NonEmptyLines(fileContents) IN
          IF \A n \in DOMAIN ls : urlParse(ls[n]).err = "nil"
          THEN /\ mpc' # "exit1"
               /\ feeds' = feeds \o [n \in DOMAIN ls |-> Deref(urlParse(ls[n]).u)]
               /\ args' = Tail(args)
          ELSE /\ mpc' = "exit1"
               /\ feeds' = feeds]_vars

\* a file of two URL lines with an empty line between them and a final
\* newline gave two targets
C16_Witness ==
    /\ mpc \in {"resolve", "fetch"}
    /\ fileContents = <<UrlText, Newline, Newline, UrlText, Newline>>
    /\ Len(feeds) >= 2
    /\ feeds[Len(feeds)] = [host |-> "a", path |-> "/p"]

\* the layout the title of a Post calls for, by its number of characters
TitleLayout(p) ==
    IF Len(p.Title) > 70
    THEN <<[kind |-> "title", date |-> "", title |-> p.Title, pad |-> 0,
            link |-> ""],
           [kind |-> "link", date |-> "", title |-> <<>>, pad |-> 70,
            link |-> p.Link]>>
    ELSE <<[kind |-> "post", date |-> "", title |-> p.Title,
            pad |-> 70 - Len(p.Title), link |-> p.Link]>>

RECURSIVE TitleLayouts(_)
TitleLayouts(ps) ==
    IF ps = <<>> THEN <<>> ELSE TitleLayout(Head(ps)) \o TitleLayouts(Tail(ps))

NotDateLine(l) == l.kind # "date"

\* C17: for every title, ASCII or not, render prints the title on its own
\* line and the link on the next line, indented, when the title has more
\* than 70 characters, and otherwise prints title and link on one line with
\* the title padded to 70 characters.
C17_TitleLayout ==
    mpc = "rendered" => SelectSeq(out, NotDateLine) = TitleLayouts(posts)

\* C18: whatever the targets and the number of Posts per feed, also when
\* there are more Posts than the result channel holds, no reachable state has
\* the caller blocked in wg.Wait() and every goroutine that is still running
\* blocked on a send.
C18_AggregatorTermination ==
    ~(/\ mpc = "spawn"
      /\ spawned = Len(feeds)
      /\ wg > 0
      /\ \A t \in Spawned :
            \/ tpc[t] = "done"
            \/ tpc[t] = "send" /\ ~closed /\ Len(postChan) = ChanCap)

\* C19: the deadline of a fetchAll invocation is armed once and never
\* re-armed; every GET issued after it has elapsed fails and ends its
\* goroutine, the GET of an auto-discovered URL included; a target whose
\* request failed issues no further request.
C19_OneDeadlineNoRetry ==
    [][/\ ctxDone => ctxDone'
       /\ \A t \in Tasks :
             gets'[t] # gets[t] =>
                /\ gets'[t] = gets[t] + 1
                /\ tpc[t] = "do"
                /\ err[t] = "nil"
                /\ ctxDone => (tpc'[t] = "done" /\ err'[t] = "Do")
       /\ \A t \in Tasks :
             err[t] # "nil" => (gets'[t] = gets[t] /\ tpc'[t] = "done")]_vars

\* the deadline elapsed during a discovery: the GET of the discovered URL
\* failed while fetchAll was still waiting
C19_Witness ==
    /\ ctxDone
    /\ mpc = "spawn"
    /\ \E t \in Spawned :
          /\ depth[t] = 1
          /\ gets[t] = 2
          /\ tpc[t] = "done"
          /\ err[t] = "Do"

\* C20: a second GET is pending only after a 2xx response whose body was
\* read and failed to parse because the feed type was not recognized, at
\* depth 0; the link scan is made in that case only; a transport error, a
\* non-2xx status, a failed read or a malformed feed of a recognized type
\* ends fetchFeed at once, with one GET issued by that call and no Post.
C20_DiscoveryTrigger ==
    \A t \in Tasks :
       /\ (depth[t] = 1 /\ tpc[t] = "do") =>
             /\ parseErr[t] = "ErrFeedTypeNotDetected"
             /\ gets[t] = 1
             /\ err[t] = "nil"
       /\ err[t] = "NoFeedLink" =>
             /\ parseErr[t] = "ErrFeedTypeNotDetected"
             /\ depth[t] = 0
       /\ err[t] \in {"Do", "Status", "ReadAll", "Malformed"} =>
             /\ tpc[t] = "done"
             /\ gets[t] = depth[t] + 1
             /\ tposts[t] = <<>>
       /\ (err[t] \in {"Do", "Status", "ReadAll"} /\ depth[t] = 0) =>
             parseErr[t] = "nil"
       /\ err[t] = "Malformed" => parseErr[t] = "Malformed"

\* a malformed feed ended one target after a single GET, and a discovered
\* URL that answered with a non-2xx status ended another after its own GET
C20_Witness ==
    /\ FetchAllReturned
    /\ \E t1, t2 \in Spawned :
          /\ err[t1] = "Malformed"
          /\ depth[t1] = 0
          /\ gets[t1] = 1
          /\ err[t2] = "Status"
          /\ depth[t2] = 1
          /\ gets[t2] = 2

\* the orders in which the Posts of a map can be walked
KeyOrders(m) ==
    {s \in [1..Cardinality(DOMAIN m) -> DOMAIN m] :
        \A i, j \in DOMAIN s : i # j => s[i] # s[j]}

DateLine(l) == l.kind = "date"

\* C21: in the map-keyed version, whatever the timestamps of the Posts
\* (Unix seconds of different numbers of digits or negative included), the
\* output is the Posts walked in an order where no Post comes before one of
\* a strictly later timestamp, and each month is printed once, so the posts
\* under each month header are contiguous.
C21_KeyedOrdering ==
    mpc = "rendered" =>
        /\ \E s \in KeyOrders(posts) :
              /\ \A i, j \in DOMAIN s :
                    i < j => Deref(posts[s[i]].Timestamp).unix
                                >= Deref(posts[s[j]].Timestamp).unix
              /\ out = renderKeys(posts, s, 1, "")
        /\ LET dates == SelectSeq(out, DateLine) IN
           \A i, j \in DOMAIN dates : i # j => dates[i].date # dates[j].date

====
